---- MODULE Spec2Model ----
(***************************************************************************)
(* A model of the segment-refinement and translation pipeline of           *)
(* subtitle_generator: MergeStage and CorrectionStage (segmentation.py),   *)
(* TranslationStage and OptimizationStage (translation.py), the            *)
(* LanguageModel capability (llm.py), the SubtitleRenderer and its         *)
(* timestamps (subtitles.py) and a run of main (cli.py).  Texts are        *)
(* sequences of                                                            *)
(* one-character strings so that strip(), lower() and substring tests are  *)
(* computed, not assumed.  Times are whole seconds.                        *)
(***************************************************************************)
EXTENDS Integers, Sequences, FiniteSets, TLC

\* ------------------------------------------------------------------ bounds
MaxSegs == 3
MaxGap == 3
MaxTSegs == 3
MaxLimit == 2
MaxOSegs == 3
MaxCtx == 2
MaxCSegs == 3
MaxLlmAttempts == 5
MaxHours == 1
MaxRSegs == 3
MaxLiveTasks == 2

\* --------------------------------------------------------------- variables
VARIABLES
    segments,   \* MergeStage: the list llm_merge_segments mutates in place
    i,          \* MergeStage: the cursor (0-based, as in the source)
    mpc,        \* MergeStage: "idle" | "start" | "loop" | "returned"
    mstep,      \* MergeStage: what the last loop iteration did
    segments0,  \* MergeStage: the list as it was passed in
    pairs_examined, \* MergeStage: iterations of the while loop so far
    runs,       \* MergeStage: per segment, the input indices it covers
    policy,     \* MergeStage: "free", or the fixed verdict function in use
    tsegs,      \* TranslationStage: the texts of the input segments
    tmode,      \* TranslationStage: "async" | "sync" (iscoroutinefunction)
    limit,      \* TranslationStage: concurrency_limit
    sem,        \* TranslationStage: the value of the asyncio.Semaphore
    task,       \* TranslationStage: per segment, its task's position
    finished,   \* TranslationStage: task ids in the order they completed
    si,         \* TranslationStage, sync: index of the segment in the for loop
    sattempts,  \* TranslationStage, sync: attempts of the current segment
    calls,      \* TranslationStage: per segment, translate_func calls made
    slept,      \* TranslationStage: per segment, the delays slept so far
    returned_ok, \* TranslationStage: segments whose translate_func call returned
    translations, \* TranslationStage: basic_translations
    tpc,        \* TranslationStage: "idle" | "start" | "async" | "sync" | "returned"
    osegs,      \* OptimizationStage: the input segments
    basic,      \* OptimizationStage: basic_translations, overwritten in place
    basic0,     \* OptimizationStage: basic_translations as they were passed in
    use_llm,    \* OptimizationStage: the use_llm flag
    context_range, \* OptimizationStage: the context_range parameter
    oi,         \* OptimizationStage: the loop index i (0-based)
    final_segments, \* OptimizationStage: the list being built
    ostep,      \* OptimizationStage: what the last loop iteration did
    opc,        \* OptimizationStage: "idle" | "loop" | "returned" | "raised"
    csegs,      \* CorrectionStage: the input segments
    ccontext_range, \* CorrectionStage: the context_range parameter
    corrected_segments, \* CorrectionStage: the list being built
    ci,         \* CorrectionStage: the loop index i (0-based)
    cstep,      \* CorrectionStage: what the last loop iteration did
    cpc,        \* CorrectionStage: "idle" | "start" | "loop" | "returned"
    backend,    \* LanguageModel: the backend argument of chat_llm
    client_ok,  \* LanguageModel: the backend's client can be set up
    max_attempts, \* LanguageModel: the max_attempts argument
    attempts,   \* LanguageModel: failed attempts so far
    sleep_time, \* LanguageModel: the next backoff
    llm_calls,  \* LanguageModel: backend calls made
    llm_slept,  \* LanguageModel: the delays slept so far
    llm_succeeded, \* LanguageModel: a backend call returned
    response_text, \* LanguageModel: what chat_llm returned
    lpc,        \* LanguageModel: "idle" | "start" | "loop" | "returned" | "raised"
    stamp_seconds, \* timestamps: the time to format, in units of 0.0001 s
    fp_side,    \* timestamps: where the double product falls at an exact edge
    srt_time,   \* timestamps: format_timestamp(seconds), <<>> before the call
    ass_time,   \* timestamps: format_ass_timestamp(seconds), <<>> before the call
    render_in,  \* SubtitleRenderer: the segments passed to generate_srt
    sorted_segments, \* SubtitleRenderer: sorted(segments, key=start)
    groups,     \* SubtitleRenderer: the groups closed so far
    current_group, \* SubtitleRenderer: the group being filled
    current_end, \* SubtitleRenderer: the running end of current_group
    gi,         \* SubtitleRenderer: segments grouped so far
    gstep,      \* SubtitleRenderer: what the last loop iteration did
    blocks,     \* SubtitleRenderer: the time range of each rendered block
    rpc,        \* SubtitleRenderer: "idle" | "start" | "group" | "returned"
    cli_args,   \* run: the command line (backend, key, flags, languages differ)
    cli_pc,     \* run: the statement of main about to be executed
    audio_path_bound, \* run: temp_audio_path has been assigned
    args_video, \* run: what args.video names, "original" | "temp"
    temp_files, \* run: the temporary resources the run has created and not removed
    failed,     \* run: an exception has reached the except clause of main
    stages_run, \* run: the calls of main that returned normally, in order
    write_failed, \* run: the render calls whose file write raised
    last_call   \* run: the last call made and how it went

mergeVars == <<segments, i, mpc, mstep, segments0, pairs_examined, runs, policy>>
transVars == <<tsegs, tmode, limit, sem, task, finished, si, sattempts,
               calls, slept, returned_ok, translations, tpc>>
optVars == <<osegs, basic, basic0, use_llm, context_range, oi,
             final_segments, ostep, opc>>
corrVars == <<csegs, ccontext_range, corrected_segments, ci, cstep, cpc>>
llmVars == <<backend, client_ok, max_attempts, attempts, sleep_time, llm_calls,
             llm_slept, llm_succeeded, response_text, lpc>>
stampVars == <<stamp_seconds, fp_side, srt_time, ass_time>>
renderVars == <<render_in, sorted_segments, groups, current_group, current_end,
                gi, gstep, blocks, rpc>>
cliVars == <<cli_args, cli_pc, audio_path_bound, args_video, temp_files, failed,
             stages_run, write_failed, last_call>>
vars == <<mergeVars, transVars, optVars, corrVars, llmVars, stampVars, renderVars,
          cliVars>>

\* what each stage leaves alone
notMerge == <<transVars, optVars, corrVars, llmVars, stampVars, renderVars, cliVars>>
notTrans == <<mergeVars, optVars, corrVars, llmVars, stampVars, renderVars, cliVars>>
notOpt == <<mergeVars, transVars, corrVars, llmVars, stampVars, renderVars, cliVars>>
notCorr == <<mergeVars, transVars, optVars, llmVars, stampVars, renderVars, cliVars>>
notLlm == <<mergeVars, transVars, optVars, corrVars, stampVars, renderVars, cliVars>>
notStamp == <<mergeVars, transVars, optVars, corrVars, llmVars, renderVars, cliVars>>
notRender == <<mergeVars, transVars, optVars, corrVars, llmVars, stampVars, cliVars>>
notCli == <<mergeVars, transVars, optVars, corrVars, llmVars, stampVars, renderVars>>

\* a stage that is not running
MergeIdle ==
    /\ segments = <<>>
    /\ i = 0
    /\ mpc = "idle"
    /\ mstep = <<>>
    /\ segments0 = <<>>
    /\ pairs_examined = 0
    /\ runs = <<>>
    /\ policy = "idle"

TransIdle ==
    /\ tsegs = <<>>
    /\ tmode = "none"
    /\ limit = 0
    /\ sem = 0
    /\ task = <<>>
    /\ finished = <<>>
    /\ si = 0
    /\ sattempts = 0
    /\ calls = <<>>
    /\ slept = <<>>
    /\ returned_ok = {}
    /\ translations = <<>>
    /\ tpc = "idle"

OptIdle ==
    /\ osegs = <<>>
    /\ basic = <<>>
    /\ basic0 = <<>>
    /\ use_llm = FALSE
    /\ context_range = 0
    /\ oi = 0
    /\ final_segments = <<>>
    /\ ostep = <<>>
    /\ opc = "idle"

CorrIdle ==
    /\ csegs = <<>>
    /\ ccontext_range = 0
    /\ corrected_segments = <<>>
    /\ ci = 0
    /\ cstep = <<>>
    /\ cpc = "idle"

LlmIdle ==
    /\ backend = "none"
    /\ client_ok = FALSE
    /\ max_attempts = 0
    /\ attempts = 0
    /\ sleep_time = 0
    /\ llm_calls = 0
    /\ llm_slept = <<>>
    /\ llm_succeeded = FALSE
    /\ response_text = <<>>
    /\ lpc = "idle"

StampIdle ==
    /\ stamp_seconds = 0
    /\ fp_side = "exact"
    /\ srt_time = <<"-">>
    /\ ass_time = <<"-">>

RenderIdle ==
    /\ render_in = <<>>
    /\ sorted_segments = <<>>
    /\ groups = <<>>
    /\ current_group = <<>>
    /\ current_end = 0
    /\ gi = 0
    /\ gstep = <<>>
    /\ blocks = <<>>
    /\ rpc = "idle"

CliIdle ==
    /\ cli_args = <<>>
    /\ cli_pc = "idle"
    /\ audio_path_bound = FALSE
    /\ args_video = "original"
    /\ temp_files = {}
    /\ failed = FALSE
    /\ stages_run = <<>>
    /\ write_failed = {}
    /\ last_call = <<>>

\* ------------------------------------------------------------ text helpers
Whitespace == {" ", "\n", "\t"}

RECURSIVE LStrip(_)
LStrip(s) ==
    IF s = <<>> THEN s
    ELSE IF Head(s) \in Whitespace THEN LStrip(Tail(s)) ELSE s

RECURSIVE RStrip(_)
RStrip(s) ==
    IF s = <<>> THEN s
    ELSE IF s[Len(s)] \in Whitespace THEN RStrip(SubSeq(s, 1, Len(s) - 1)) ELSE s

\* str.strip()
Strip(s) == RStrip(LStrip(s))

\* truth value of a Python str
Truthy(s) == s # <<>>

UpperLetters == <<"D", "M", "N", "O", "T">>
LowerLetters == <<"d", "m", "n", "o", "t">>

LowerChar(c) ==
    IF \E k \in 1..Len(UpperLetters) : UpperLetters[k] = c
    THEN LowerLetters[CHOOSE k \in 1..Len(UpperLetters) : UpperLetters[k] = c]
    ELSE c

\* str.lower()
Lower(s) == [k \in 1..Len(s) |-> LowerChar(s[k])]

\* sub in s
Contains(sub, s) ==
    \E k \in 0..(Len(s) - Len(sub)) : SubSeq(s, k + 1, k + Len(sub)) = sub

\* ============================================================== MergeStage
MaxMergeDuration == 4

\* the one-character string U+4E0D (the Chinese negation marker)
BuChar == "U+4E0D"

NoOutcome == [raised |-> FALSE, text |-> <<"-">>]

\* What chat_llm can hand back to should_merge: a stripped reply, the empty
\* string after exhausted retries, or an exception raised before the retry
\* loop (client construction, backend import).
MergeAnswers ==
    { <<>>,
      <<"M", "e", "r", "g", "e">>,
      <<"N", "O", "T">>,
      <<"n", "o", "t">>,
      <<BuChar>>,
      <<"N", "o">> }

MergeOutcomes ==
    {[raised |-> TRUE, text |-> <<>>]} \cup
    {[raised |-> FALSE, text |-> a] : a \in MergeAnswers}

\* a slip: the answer is not lower-cased before the test
should_merge_case_sensitive(outcome) ==
    IF outcome.raised THEN FALSE
    ELSE IF Truthy(outcome.text)
            /\ (Contains(<<"n", "o", "t">>, outcome.text)
                \/ Contains(<<BuChar>>, outcome.text))
         THEN FALSE
         ELSE TRUE

should_merge(outcome) ==
    IF outcome.raised THEN FALSE
    ELSE IF Truthy(outcome.text)
            /\ (Contains(<<"n", "o", "t">>, Lower(outcome.text))
                \/ Contains(<<BuChar>>, outcome.text))
         THEN FALSE
         ELSE TRUE

\* the kinds of segment a transcript is drawn from: silence, a
\* whitespace-only text, a plain text, a text with surrounding whitespace
SegmentKinds ==
    { [dur |-> 1, text |-> <<>>, speaker |-> ""],
      [dur |-> 2, text |-> <<" ">>, speaker |-> "B"],
      [dur |-> 1, text |-> <<"a">>, speaker |-> "A"],
      [dur |-> 2, text |-> <<" ", "b", " ">>, speaker |-> ""] }

RECURSIVE SumTo(_, _)
SumTo(f, k) == IF k = 0 THEN 0 ELSE f[k] + SumTo(f, k - 1)

\* A transcript: chronological (sorted by start), start <= end in every
\* segment; g[k] is the distance between the starts of segments k and k+1.
Transcript(n, g, p) ==
    [k \in 1..n |->
        [start |-> SumTo(g, k - 1),
         end |-> SumTo(g, k - 1) + p[k].dur,
         text |-> p[k].text,
         speaker |-> p[k].speaker]]

\* the state on entry to llm_merge_segments
MergeEntry ==
    /\ \E n \in 0..MaxSegs :
         \E g \in [1..(IF n = 0 THEN 0 ELSE n - 1) -> 0..MaxGap] :
            \E p \in [1..n -> SegmentKinds] :
                segments = Transcript(n, g, p)
    /\ segments0 = segments
    /\ pairs_examined = 0
    /\ runs = [k \in 1..Len(segments) |-> [lo |-> k, hi |-> k]]
    /\ i = 0
    /\ mpc = "start"
    /\ mstep = [branch |-> "none", outcome |-> NoOutcome, cursor |-> 0, before |-> <<>>]
    /\ TransIdle
    /\ OptIdle
    /\ CorrIdle
    /\ LlmIdle
    /\ StampIdle
    /\ RenderIdle
    /\ CliIdle

InitMerge ==
    /\ MergeEntry
    /\ policy = "free"

\* if not segments: return segments
MergeEnter ==
    /\ mpc = "start"
    /\ mpc' = IF segments = <<>> THEN "returned" ELSE "loop"
    /\ UNCHANGED <<segments, i, mstep, segments0, pairs_examined, runs, policy>>
    /\ UNCHANGED notMerge

\* a slip: the length of the second segment alone
merged_duration_of_second(seg1, seg2) == seg2.end - seg2.start

\* seg2["end"] - seg1["start"], the length the merged segment would have
merged_duration(seg1, seg2) == seg2.end - seg1.start

\* a plausible slip: the cap measured from the end of the first segment
exceeds_cap_from_end(seg1, seg2) == seg2.end - seg1.end > MaxMergeDuration

\* seg2["end"] - seg1["start"] > 4
exceeds_cap(seg1, seg2) == merged_duration(seg1, seg2) > MaxMergeDuration

\* a slip: an untrimmed empty-text test, and only of the first segment
either_blank_untrimmed(seg1, seg2) == seg1.text = <<>>

\* not seg1.get("text", "").strip() or not seg2.get("text", "").strip()
either_blank(seg1, seg2) == Strip(seg1.text) = <<>> \/ Strip(seg2.text) = <<>>

\* a slip: the merged segment keeps the end of the first segment
merged_seg_end_kept(seg1, seg2) ==
    [seg1 EXCEPT !.text = Strip(seg1.text) \o <<" ">> \o Strip(seg2.text)]

merged_seg(seg1, seg2) ==
    [seg1 EXCEPT !.text = Strip(seg1.text) \o <<" ">> \o Strip(seg2.text),
                 !.end = seg2.end]

\* a slip: pop(i) instead of pop(i + 1)
RemoveBefore(s, k) == SubSeq(s, 1, k - 2) \o SubSeq(s, k, Len(s))

\* segments.pop(i + 1), with k the 1-based position
RemoveAt(s, k) == SubSeq(s, 1, k - 1) \o SubSeq(s, k + 1, Len(s))

\* a slip: the cursor moves on after a merge too
cursor_after_merge_advancing(c) == c + 1

\* the merge branch leaves i as it is
cursor_after_merge(c) == c

\* a slip: the loop stops one pair early
loop_continues_short(c, n) == c < n - 2

\* while i < len(segments) - 1:
loop_continues(c, n) == c < n - 1

\* a slip: the refused pair is passed over together with the next one
cursor_after_no_merge_skipping(c) == c + 2

\* the else branch: i += 1
cursor_after_no_merge(c) == c + 1

\* one iteration of the while loop of llm_merge_segments
MergeIteration(outcome) ==
    /\ mpc = "loop"
    /\ loop_continues(i, Len(segments))
    /\ LET seg1 == segments[i + 1]
           seg2 == segments[i + 2]
           log(b, o) == [branch |-> b, outcome |-> o, cursor |-> i, before |-> segments]
       IN  IF either_blank(seg1, seg2)
           THEN /\ i' = i + 1
                /\ mstep' = log("empty", NoOutcome)
                /\ UNCHANGED <<segments, runs>>
           ELSE IF exceeds_cap(seg1, seg2)
           THEN /\ i' = i + 1
                /\ mstep' = log("duration", NoOutcome)
                /\ UNCHANGED <<segments, runs>>
           ELSE IF should_merge(outcome)
           THEN /\ segments' = RemoveAt([segments EXCEPT ![i + 1] = merged_seg(seg1, seg2)], i + 2)
                /\ runs' = RemoveAt([runs EXCEPT ![i + 1].hi = runs[i + 2].hi], i + 2)
                /\ mstep' = log("merge", outcome)
                /\ i' = cursor_after_merge(i)
           ELSE /\ i' = cursor_after_no_merge(i)
                /\ mstep' = log("nomerge", outcome)
                /\ UNCHANGED <<segments, runs>>
    /\ pairs_examined' = pairs_examined + 1
    /\ UNCHANGED <<mpc, segments0, policy>>
    /\ UNCHANGED notMerge

MergeReturn ==
    /\ mpc = "loop"
    /\ ~loop_continues(i, Len(segments))
    /\ mpc' = "returned"
    /\ UNCHANGED <<segments, i, mstep, segments0, pairs_examined, runs, policy>>
    /\ UNCHANGED notMerge

NextMerge ==
    \/ MergeEnter
    \/ \E outcome \in MergeOutcomes : MergeIteration(outcome)
    \/ MergeReturn

SpecMerge == InitMerge /\ [][NextMerge]_vars

\* the scheduler of the while loop: a step that can be taken is taken
SpecMergeLive == SpecMerge /\ WF_vars(NextMerge)

\* A LanguageModel whose answer is a fixed function of the two segments:
\* it always says merge, never does, or keeps a repeated text apart.
Policies == {"always", "never", "unless_repeated"}

AnswerMerge == [raised |-> FALSE, text |-> <<"M", "e", "r", "g", "e">>]
AnswerNot == [raised |-> FALSE, text |-> <<"N", "O", "T">>]

PolicyAnswer(pol, seg1, seg2) ==
    IF pol = "always" THEN AnswerMerge
    ELSE IF pol = "never" THEN AnswerNot
    ELSE IF Strip(seg1.text) = Strip(seg2.text) THEN AnswerNot ELSE AnswerMerge

InitMergeFixed ==
    /\ MergeEntry
    /\ policy \in Policies

\* the loop iteration when the LanguageModel follows the policy
FixedMergeIteration ==
    /\ mpc = "loop"
    /\ loop_continues(i, Len(segments))
    /\ MergeIteration(PolicyAnswer(policy, segments[i + 1], segments[i + 2]))

NextMergeFixed ==
    \/ MergeEnter
    \/ FixedMergeIteration
    \/ MergeReturn

SpecMergeFixed == InitMergeFixed /\ [][NextMergeFixed]_vars

\* the pair the last iteration examined
StepSeg1 == mstep.before[mstep.cursor + 1]
StepSeg2 == mstep.before[mstep.cursor + 2]
StepQueried == mstep.branch \in {"merge", "nomerge"}
StepLeftAlone == segments = mstep.before /\ i = mstep.cursor + 1

\* C1: when the LanguageModel query for a pair yields the empty string or
\* raises, the pair is not merged: both segments stay unchanged and the
\* cursor advances by 1.
C1_NoAnswerIsDoNotMerge ==
    (StepQueried /\ (mstep.outcome.raised \/ mstep.outcome.text = <<>>))
        => (mstep.branch = "nomerge" /\ StepLeftAlone)

\* C10: a pair with seg[i+1].end - seg[i].start > 4 is never merged; the
\* LanguageModel is not queried for it and the cursor advances.
C10_DurationCap ==
    (mstep.branch # "none" /\ StepSeg2.end - StepSeg1.start > 4)
        => (~StepQueried /\ mstep.outcome = NoOutcome /\ StepLeftAlone)

\* a pair of non-empty segments over the cap has been examined and skipped
C10_Witness ==
    /\ mstep.branch = "duration"
    /\ StepSeg2.end - StepSeg1.start > 4
    /\ i = mstep.cursor + 1

\* C11: a pair in which either text is empty or only whitespace is never
\* merged; the LanguageModel is not queried for it, both segments are left
\* unchanged and the cursor advances.
C11_BlankNeverMerged ==
    (mstep.branch # "none"
        /\ (Strip(StepSeg1.text) = <<>> \/ Strip(StepSeg2.text) = <<>>))
    => (~StepQueried /\ mstep.outcome = NoOutcome /\ StepLeftAlone)

\* a text next to a whitespace-only text, within the cap, has been skipped
C11_Witness ==
    /\ mstep.branch = "empty"
    /\ StepSeg1.text = <<"a">>
    /\ StepSeg2.text = <<" ">>
    /\ StepSeg2.end - StepSeg1.start <= 4
    /\ i = mstep.cursor + 1

\* the verdict of the policy in use, read off its definition
PolicySaysMerge(a, b) ==
    \/ policy = "always"
    \/ policy = "unless_repeated" /\ Strip(a.text) # Strip(b.text)

\* the merge predicate: both texts non-empty, within the cap, verdict merge
MergePredicate(a, b) ==
    /\ Strip(a.text) # <<>>
    /\ Strip(b.text) # <<>>
    /\ b.end - a.start <= 4
    /\ PolicySaysMerge(a, b)

\* C12 as stated: with a LanguageModel whose verdict is a fixed function of
\* the two segments, the output has no adjacent pair that satisfies the
\* merge predicate.
C12_FixedPoint ==
    mpc = "returned" =>
        \A k \in 1..(Len(segments) - 1) :
            ~MergePredicate(segments[k], segments[k + 1])

\* C12 amended: the output has no adjacent pair that satisfies the merge
\* predicate among the pairs whose second segment is an input segment
\* that was left unmerged.
C12_FixedPointUnmergedRight ==
    mpc = "returned" =>
        \A k \in 1..(Len(segments) - 1) :
            runs[k + 1].lo = runs[k + 1].hi
                => ~MergePredicate(segments[k], segments[k + 1])

\* a run over three segments has returned a pair of unmerged segments
\* within the cap that the LanguageModel was asked about and kept apart
C12_Witness ==
    /\ mpc = "returned"
    /\ policy = "unless_repeated"
    /\ Len(segments0) = 3
    /\ \E k \in 1..(Len(segments) - 1) :
          /\ runs[k + 1].lo = runs[k + 1].hi
          /\ Strip(segments[k].text) # <<>>
          /\ Strip(segments[k + 1].text) # <<>>
          /\ segments[k + 1].end - segments[k].start <= 4

\* every segment but the merged pair is where it was
StepOthersUnchanged ==
    /\ Len(segments) = Len(mstep.before) - 1
    /\ \A k \in 1..mstep.cursor : segments[k] = mstep.before[k]
    /\ \A k \in (mstep.cursor + 2)..Len(segments) : segments[k] = mstep.before[k + 1]
    /\ i = mstep.cursor

\* C13 as stated: a merge at cursor i makes seg[i] the record {start of
\* seg[i], end of seg[i+1], text seg[i].text + " " + seg[i+1].text, speaker
\* of seg[i]}, removes seg[i+1] and changes nothing else, for any texts.
C13_MergedVerbatim ==
    mstep.branch = "merge" =>
        /\ segments[mstep.cursor + 1] =
              [start |-> StepSeg1.start, end |-> StepSeg2.end,
               text |-> StepSeg1.text \o <<" ">> \o StepSeg2.text,
               speaker |-> StepSeg1.speaker]
        /\ StepOthersUnchanged

\* C13 amended: as stated, but with each text trimmed of its leading and
\* trailing whitespace before the two are joined by one space.
C13_MergedTrimmed ==
    mstep.branch = "merge" =>
        /\ segments[mstep.cursor + 1] =
              [start |-> StepSeg1.start, end |-> StepSeg2.end,
               text |-> Strip(StepSeg1.text) \o <<" ">> \o Strip(StepSeg2.text),
               speaker |-> StepSeg1.speaker]
        /\ StepOthersUnchanged

\* a merge of two segments of different speakers and ends, the second with
\* whitespace around its text, in a list of three
C13_Witness ==
    /\ mstep.branch = "merge"
    /\ Len(mstep.before) = 3
    /\ StepSeg1.text = <<"a">>
    /\ StepSeg2.text = <<" ", "b", " ">>
    /\ StepSeg1.end # StepSeg2.end
    /\ segments[mstep.cursor + 1].text = <<"a", " ", "b">>

\* "not" in any letter case
ContainsNotAnyCase(s) ==
    \E k \in 1..(Len(s) - 2) :
        /\ s[k] \in {"n", "N"}
        /\ s[k + 1] \in {"o", "O"}
        /\ s[k + 2] \in {"t", "T"}

\* C14: a non-empty answer is do-not-merge exactly when it contains "not"
\* in any letter case or the marker U+4E0D, and merge otherwise.
C14_NegationMarkers ==
    (StepQueried /\ ~mstep.outcome.raised /\ mstep.outcome.text # <<>>)
    => (mstep.branch = "nomerge"
            <=> (ContainsNotAnyCase(mstep.outcome.text)
                    \/ \E k \in 1..Len(mstep.outcome.text) :
                          mstep.outcome.text[k] = BuChar))

\* an upper-case NOT has kept a pair apart
C14_Witness ==
    /\ mstep.branch = "nomerge"
    /\ mstep.outcome = [raised |-> FALSE, text |-> <<"N", "O", "T">>]
    /\ StepLeftAlone

\* C15: the output is no longer than the input and keeps its order: each
\* output segment covers a contiguous run of input segments, the runs
\* follow each other in input order, and the starts stay sorted.
C15_OrderPreserved ==
    /\ Len(segments) <= Len(segments0)
    /\ Len(runs) = Len(segments)
    /\ Len(segments) > 0 =>
          (runs[1].lo = 1 /\ runs[Len(runs)].hi = Len(segments0))
    /\ \A k \in 1..Len(segments) :
          /\ runs[k].lo <= runs[k].hi
          /\ segments[k].start = segments0[runs[k].lo].start
          /\ segments[k].end = segments0[runs[k].hi].end
          /\ segments[k].speaker = segments0[runs[k].lo].speaker
          /\ runs[k].lo = runs[k].hi => segments[k] = segments0[runs[k].lo]
    /\ \A k \in 1..(Len(segments) - 1) :
          /\ runs[k + 1].lo = runs[k].hi + 1
          /\ segments[k].start <= segments[k + 1].start

\* a run has returned two segments out of three
C15_Witness ==
    /\ mpc = "returned"
    /\ Len(segments0) = 3
    /\ Len(segments) = 2
    /\ runs[2] = [lo |-> 2, hi |-> 3]

\* C30: the cursor does not advance after a merge and advances by exactly
\* 1 after a no-merge: after a merge at cursor i the next pair examined is
\* the merged seg[i] and the new seg[i+1], so three or more adjacent
\* segments can be fused into one.
C30_CursorStaysAfterMerge ==
    /\ mstep.branch = "merge" =>
          /\ i = mstep.cursor
          /\ Len(segments) = Len(mstep.before) - 1
          /\ segments[i + 1].start = StepSeg1.start
          /\ segments[i + 1].end = StepSeg2.end
          /\ i + 2 <= Len(segments) => segments[i + 2] = mstep.before[i + 3]
    /\ mstep.branch \in {"nomerge", "empty", "duration"} =>
          /\ i = mstep.cursor + 1
          /\ segments = mstep.before

\* three input segments have been fused into one by two merges at the
\* same cursor
C30_Witness ==
    /\ mpc = "returned"
    /\ Len(segments0) = 3
    /\ Len(segments) = 1
    /\ runs[1] = [lo |-> 1, hi |-> 3]
    /\ mstep.branch = "merge"
    /\ mstep.cursor = 0

\* every step so far has advanced the cursor or removed one segment, and
\* a returned run over n >= 1 segments has examined n - 1 pairs with the
\* cursor on the last segment
C31_ExaminesAllPairs ==
    /\ mpc \in {"loop", "returned"} =>
          pairs_examined = i + (Len(segments0) - Len(segments))
    /\ (mpc = "returned" /\ segments0 # <<>>) =>
          /\ i = Len(segments) - 1
          /\ pairs_examined = Len(segments0) - 1
    /\ (mpc = "returned" /\ segments0 = <<>>) =>
          /\ pairs_examined = 0
          /\ segments = <<>>

\* C31: MergeStage terminates for every input and every sequence of
\* LanguageModel answers; on n >= 1 segments it examines exactly n - 1
\* pairs and stops with the cursor at len(segments) - 1, and on an empty
\* input it returns at once.
C31_MergeTerminates ==
    /\ []C31_ExaminesAllPairs
    /\ <>(mpc = "returned")

\* a run over three segments has returned after a merge and a refusal
C31_Witness ==
    /\ mpc = "returned"
    /\ Len(segments0) = 3
    /\ Len(segments) = 2
    /\ pairs_examined = 2
    /\ i = 1

\* C35: every segment produced by merging, also by a chain of merges, has
\* end - start <= 4, for an input sorted by start with start <= end.
C35_MergedWithinCap ==
    \A k \in 1..Len(segments) :
        runs[k].lo < runs[k].hi =>
            segments[k].end - segments[k].start <= 4

\* a segment fused from three inputs is within the cap
C35_Witness ==
    /\ \E k \in 1..Len(segments) :
          /\ runs[k].hi - runs[k].lo = 2
          /\ segments[k].end - segments[k].start <= 4
          /\ segments[k].end - segments[k].start >= 3

\* ======================================================== TranslationStage
AsyncMaxAttempts == 5
AsyncDelay == 1
SyncMaxAttempts == 5
SyncDelay == 1

NoValue == [kind |-> "none", body |-> <<>>]

\* a Python str holding the text t
StrOf(t) == [kind |-> "str", body |-> t]

\* what the Translator capability hands back for a text, as str or bytes
TranslatorReturn(t, kind) == [kind |-> kind, body |-> <<"#">> \o t]

\* basic_trans.decode('utf-8') for bytes, then str(basic_trans)
decode_to_str(v) == [v EXCEPT !.kind = "str"]

Digits == <<"1", "2", "3", "4", "5", "6">>

\* segment k says something of its own, except segment z, which is silent
TextAt(k, z) == IF k = z THEN <<>> ELSE <<"s", Digits[k]>>

NTasks == Len(tsegs)

InitTrans ==
    /\ \E n \in 0..MaxTSegs :
         \E z \in 0..n :
            /\ tsegs = [k \in 1..n |-> TextAt(k, z)]
            /\ calls = [k \in 1..n |-> 0]
            /\ slept = [k \in 1..n |-> <<>>]
    /\ tmode \in {"async", "sync"}
    /\ limit \in 1..MaxLimit
    /\ sem = 0
    /\ task = <<>>
    /\ finished = <<>>
    /\ si = 0
    /\ sattempts = 0
    /\ returned_ok = {}
    /\ translations = <<>>
    /\ tpc = "start"
    /\ MergeIdle
    /\ OptIdle
    /\ CorrIdle
    /\ LlmIdle
    /\ StampIdle
    /\ RenderIdle
    /\ CliIdle

\* if asyncio.iscoroutinefunction(translate_func): ... else: ...
TranslateEnter ==
    /\ tpc = "start"
    /\ IF tmode = "async"
       THEN /\ sem' = limit
            /\ task' = [k \in 1..NTasks |->
                          [st |-> "waiting", attempt |-> 0, result |-> NoValue]]
            /\ tpc' = "async"
            /\ UNCHANGED <<si, sattempts>>
       ELSE /\ si' = 1
            /\ sattempts' = 0
            /\ tpc' = "sync"
            /\ UNCHANGED <<sem, task>>
    /\ UNCHANGED <<returned_ok, tsegs, tmode, limit, finished, calls, slept, translations>>
    /\ UNCHANGED notTrans

\* a slip: the call is issued without regard to the semaphore's value
can_acquire_unbounded(k) ==
    \A j \in 1..(k - 1) : task[j].st # "waiting"

\* async with semaphore: a permit is free and no earlier task is queued
\* (asyncio.Semaphore wakes its waiters first come, first served; the tasks
\* reach it in index order)
can_acquire(k) ==
    /\ sem > 0
    /\ \A j \in 1..(k - 1) : task[j].st # "waiting"

\* a slip: the fixed delay of async_basic_translate
fixed_backoff(attempt) == AsyncDelay

\* delay * (2 ** (attempt - 1))
backoff(attempt) == AsyncDelay * 2 ^ (attempt - 1)

\* a slip: the permit is kept when the task leaves the block
release_leaking(s) == s

\* leaving `async with semaphore:` hands the permit back, by return or by
\* falling out of the while loop
release(s) == s + 1

\* sem_translate enters the semaphore and issues its first call
AsyncAcquire(k) ==
    /\ tpc = "async"
    /\ task[k].st = "waiting"
    /\ can_acquire(k)
    /\ sem' = sem - 1
    /\ task' = [task EXCEPT ![k].st = "calling"]
    /\ calls' = [calls EXCEPT ![k] = @ + 1]
    /\ UNCHANGED <<returned_ok, tsegs, tmode, limit, finished, si, sattempts, slept, translations, tpc>>
    /\ UNCHANGED notTrans

\* translate_func returns: the task returns its result and leaves the semaphore
AsyncReturn(k) ==
    /\ tpc = "async"
    /\ task[k].st = "calling"
    /\ task' = [task EXCEPT ![k].st = "done",
                            ![k].result = TranslatorReturn(tsegs[k], "str")]
    /\ sem' = release(sem)
    /\ finished' = Append(finished, k)
    /\ returned_ok' = returned_ok \cup {k}
    /\ UNCHANGED <<tsegs, tmode, limit, si, sattempts, calls, slept, translations, tpc>>
    /\ UNCHANGED notTrans

\* translate_func raises: count the attempt and sleep, still inside the semaphore
AsyncRaise(k) ==
    /\ tpc = "async"
    /\ task[k].st = "calling"
    /\ task' = [task EXCEPT ![k].st = "sleeping", ![k].attempt = @ + 1]
    /\ slept' = [slept EXCEPT ![k] = Append(@, backoff(task[k].attempt + 1))]
    /\ UNCHANGED <<returned_ok, tsegs, tmode, limit, sem, finished, si, sattempts, calls, translations, tpc>>
    /\ UNCHANGED notTrans

\* a slip: the exhausted task takes the other tasks down with it
return_text_aborting(t, k) ==
    [j \in 1..Len(t) |-> [t[j] EXCEPT !.st = "done", !.result = StrOf(tsegs[j])]]

\* return text, after the while loop of sem_translate
return_text(t, k) == [t EXCEPT ![k].st = "done", ![k].result = StrOf(tsegs[k])]

\* the sleep is over: call again while attempt < max_attempts, else return text
AsyncWake(k) ==
    /\ tpc = "async"
    /\ task[k].st = "sleeping"
    /\ IF task[k].attempt < AsyncMaxAttempts
       THEN /\ task' = [task EXCEPT ![k].st = "calling"]
            /\ calls' = [calls EXCEPT ![k] = @ + 1]
            /\ UNCHANGED <<sem, finished>>
       ELSE /\ task' = return_text(task, k)
            /\ sem' = release(sem)
            /\ finished' = Append(finished, k)
            /\ UNCHANGED calls
    /\ UNCHANGED <<returned_ok, tsegs, tmode, limit, si, sattempts, slept, translations, tpc>>
    /\ UNCHANGED notTrans

\* a slip: results collected in the order the tasks completed
gather_as_completed(t, f) == [k \in 1..Len(t) |-> t[f[k]].result]

\* asyncio.gather(*tasks): results in the order of the awaitables passed
gather(t, f) == [k \in 1..Len(t) |-> t[k].result]

AsyncGather ==
    /\ tpc = "async"
    /\ \A k \in 1..NTasks : task[k].st = "done"
    /\ translations' = gather(task, finished)
    /\ tpc' = "returned"
    /\ UNCHANGED <<returned_ok, tsegs, tmode, limit, sem, task, finished, si, sattempts, calls, slept>>
    /\ UNCHANGED notTrans

TranslatorOutcomes == {"raise", "str", "bytes"}

\* a slip: the ceiling itself still allows another attempt
may_retry_inclusive(tried) == tried <= SyncMaxAttempts

\* attempts < max_attempts, after attempts += 1
may_retry(tried) == tried < SyncMaxAttempts

\* one pass through the while loop of the sync branch
SyncAttempt(outcome) ==
    /\ tpc = "sync"
    /\ si <= NTasks
    /\ calls' = [calls EXCEPT ![si] = @ + 1]
    /\ IF outcome # "raise"
       THEN /\ translations' =
                 Append(translations, decode_to_str(TranslatorReturn(tsegs[si], outcome)))
            /\ si' = si + 1
            /\ sattempts' = 0
            /\ returned_ok' = returned_ok \cup {si}
            /\ UNCHANGED slept
       ELSE IF may_retry(sattempts + 1)
       THEN /\ sattempts' = sattempts + 1
            /\ slept' = [slept EXCEPT ![si] = Append(@, SyncDelay)]
            /\ UNCHANGED <<translations, si, returned_ok>>
       ELSE /\ translations' = Append(translations, StrOf(tsegs[si]))
            /\ si' = si + 1
            /\ sattempts' = 0
            /\ UNCHANGED <<slept, returned_ok>>
    /\ UNCHANGED <<tsegs, tmode, limit, sem, task, finished, tpc>>
    /\ UNCHANGED notTrans

SyncReturn ==
    /\ tpc = "sync"
    /\ si > NTasks
    /\ tpc' = "returned"
    /\ UNCHANGED <<returned_ok, tsegs, tmode, limit, sem, task, finished, si, sattempts,
                   calls, slept, translations>>
    /\ UNCHANGED notTrans

NextTrans ==
    \/ TranslateEnter
    \/ \E k \in 1..NTasks : AsyncAcquire(k)
    \/ \E k \in 1..NTasks : AsyncReturn(k)
    \/ \E k \in 1..NTasks : AsyncRaise(k)
    \/ \E k \in 1..NTasks : AsyncWake(k)
    \/ AsyncGather
    \/ \E outcome \in TranslatorOutcomes : SyncAttempt(outcome)
    \/ SyncReturn

SpecTrans == InitTrans /\ [][NextTrans]_vars

\* the branch taken when translate_func is a coroutine function
InitAsync ==
    /\ InitTrans
    /\ tmode = "async"
    /\ NTasks <= MaxLiveTasks

NextAsync ==
    \/ TranslateEnter
    \/ \E k \in 1..NTasks : AsyncAcquire(k)
    \/ \E k \in 1..NTasks : AsyncReturn(k)
    \/ \E k \in 1..NTasks : AsyncRaise(k)
    \/ \E k \in 1..NTasks : AsyncWake(k)
    \/ AsyncGather

\* the event loop runs a task that can run, a call that was issued returns or
\* raises, and a sleep ends
SpecTransLive == InitAsync /\ [][NextAsync]_vars /\ WF_vars(NextAsync)

\* the translation of a text, and the text itself, as the caller sees them
ResultFor(t) == [kind |-> "str", body |-> <<"#">> \o t]
FallbackFor(t) == [kind |-> "str", body |-> t]

\* C2: the stage returns one translation per input segment, and
\* translations[k] is the Translator's result for segments[k].text or that
\* text itself, in both modes and for every completion order.
C2_IndexAligned ==
    tpc = "returned" =>
        /\ Len(translations) = Len(tsegs)
        /\ \A k \in 1..Len(tsegs) :
              translations[k] \in {ResultFor(tsegs[k]), FallbackFor(tsegs[k])}

\* an async run has returned although a later task completed first
C2_Witness ==
    /\ tpc = "returned"
    /\ tmode = "async"
    /\ Len(tsegs) >= 2
    /\ finished[1] # 1
    /\ \E k \in 1..Len(tsegs) : translations[k] = ResultFor(tsegs[k])

InFlight == {k \in 1..Len(task) : task[k].st = "calling"}

\* C3: in async mode the number of translate_func calls started and not yet
\* returned or raised never exceeds concurrency_limit.
C3_BoundedInFlight ==
    tmode = "async" => Cardinality(InFlight) <= limit

\* the limit is reached while another task is still queued
C3_Witness ==
    /\ tpc = "async"
    /\ Cardinality(InFlight) = limit
    /\ \E k \in 1..Len(task) : task[k].st = "waiting"

\* task k is over and every call it made raised
Exhausted(k) ==
    /\ tmode = "async"
    /\ tpc \in {"async", "returned"}
    /\ task[k].st = "done"
    /\ task[k].attempt = calls[k]

\* C4 as stated: a task whose calls all raise makes exactly 10 calls,
\* waits 1s * 2^(attempt-1) after each, then yields the original text.
C4_TenAttempts ==
    \A k \in 1..Len(task) :
        Exhausted(k) =>
            /\ calls[k] = 10
            /\ slept[k] = [a \in 1..10 |-> 2 ^ (a - 1)]
            /\ task[k].result = FallbackFor(tsegs[k])

\* C4 amended: a task whose calls all raise makes exactly 5 calls, waits
\* 1s * 2^(attempt-1) after failed attempt number attempt (1, 2, 4, 8, 16),
\* then yields the original text.
C4_FiveAttempts ==
    /\ tmode = "async" /\ tpc \in {"async", "returned"} =>
         \A k \in 1..Len(task) :
            /\ Len(slept[k]) = task[k].attempt
            /\ \A a \in 1..Len(slept[k]) : slept[k][a] = 2 ^ (a - 1)
    /\ \A k \in 1..Len(task) :
         Exhausted(k) =>
            /\ calls[k] = 5
            /\ slept[k] = <<1, 2, 4, 8, 16>>
            /\ task[k].result = FallbackFor(tsegs[k])

\* some task has used up its attempts
C4_Witness == \E k \in 1..Len(task) : Exhausted(k)

\* C5: a task sleeping in its backoff holds no capacity another task is
\* waiting for: a task that has not issued its call is never kept out by an
\* exhausted semaphore while some task sleeps.
C5_SleeperBlocksOnlyItself ==
    ~ \E s \in 1..Len(task), w \in 1..Len(task) :
        /\ task[s].st = "sleeping"
        /\ task[w].st = "waiting"
        /\ sem = 0

\* C8: no call to translate_func is made for a segment whose text is empty,
\* in either mode.
C8_NoEmptyTextTranslated ==
    \A k \in 1..Len(tsegs) : tsegs[k] = <<>> => calls[k] = 0

\* sync: segment k has been dealt with and none of its calls returned
SyncExhausted(k) ==
    /\ tmode = "sync"
    /\ tpc \in {"sync", "returned"}
    /\ k < si
    /\ k \notin returned_ok

\* C19: in sync mode the segments are translated one after another in
\* index order; a segment whose every call raises is called exactly 5
\* times, with a 1s wait between attempts, and its translation is its
\* original text.
C19_SyncSequentialFiveAttempts ==
    (tmode = "sync" /\ tpc \in {"sync", "returned"}) =>
        /\ Len(translations) = si - 1
        /\ \A k \in 1..Len(tsegs) :
              /\ k < si => calls[k] >= 1
              /\ k > si => calls[k] = 0 /\ slept[k] = <<>>
              /\ SyncExhausted(k) =>
                    /\ calls[k] = 5
                    /\ slept[k] = <<1, 1, 1, 1>>
                    /\ translations[k] = FallbackFor(tsegs[k])

\* a sync run has given up on a segment and gone on to the next one
C19_Witness ==
    /\ tpc = "sync"
    /\ \E k \in 1..Len(tsegs) :
          /\ SyncExhausted(k)
          /\ tsegs[k] # <<>>
          /\ si = k + 1
          /\ si <= Len(tsegs)
          /\ calls[si] >= 1

\* segment k has used up its attempts, in either mode
GaveUp(k) ==
    \/ SyncExhausted(k)
    \/ Exhausted(k)

\* C20: a segment whose retries are exhausted neither aborts the stage nor
\* alters another segment's translation: every segment whose translate_func
\* call returned has that call's result at its own index.
C20_FailureIsolated ==
    /\ tpc \in {"idle", "start", "async", "sync", "returned"}
    /\ tpc = "async" =>
          \A k \in returned_ok : task[k].result = ResultFor(tsegs[k])
    /\ tpc = "sync" =>
          \A k \in returned_ok : translations[k] = ResultFor(tsegs[k])
    /\ tpc = "returned" =>
          /\ Len(translations) = Len(tsegs)
          /\ \A k \in returned_ok : translations[k] = ResultFor(tsegs[k])

\* a run has returned in which one segment gave up, after an earlier and
\* before a later segment whose calls returned
C20_Witness ==
    /\ tpc = "returned"
    /\ Len(tsegs) = 3
    /\ GaveUp(2)
    /\ returned_ok = {1, 3}
    /\ translations[2] = FallbackFor(tsegs[2])
    /\ translations[3] = ResultFor(tsegs[3])

InAsync == tmode = "async" /\ tpc \in {"async", "returned"}

HoldsPermit(k) == task[k].st \in {"calling", "sleeping"}

C34_PermitsAccounted ==
    InAsync =>
        /\ sem >= 0
        /\ sem + Cardinality({k \in 1..NTasks : HoldsPermit(k)}) = limit
        /\ \A k \in 1..NTasks :
              /\ task[k].attempt <= AsyncMaxAttempts
              /\ calls[k] <= AsyncMaxAttempts
              /\ (task[k].st = "done" /\ k \notin returned_ok) =>
                    (task[k].attempt = AsyncMaxAttempts /\ calls[k] = AsyncMaxAttempts)
        /\ tpc = "returned" =>
              /\ sem = limit
              /\ \A k \in 1..NTasks : task[k].st = "done"

\* C34: in async mode with concurrency_limit >= 1, when every call of
\* translate_func returns or raises, every task finishes after at most five
\* attempts, every permit taken is handed back whether the task succeeded
\* or ran out of attempts, no task waits for a permit for ever, and the
\* stage returns.
C34_AsyncTerminates ==
    /\ []C34_PermitsAccounted
    /\ (tpc = "async") ~> (tpc = "returned" /\ sem = limit)

\* two tasks went through one permit: the first ran out of attempts, the
\* second waited for the permit and then succeeded, and the stage has
\* returned with the permit back
C34_Witness ==
    /\ tmode = "async"
    /\ tpc = "returned"
    /\ limit = 1
    /\ NTasks = 2
    /\ sem = 1
    /\ task[1].attempt = AsyncMaxAttempts
    /\ 1 \notin returned_ok
    /\ 2 \in returned_ok

\* ======================================================= OptimizationStage
Max(a, b) == IF a >= b THEN a ELSE b
Min(a, b) == IF a <= b THEN a ELSE b

Raised == [raised |-> TRUE, text |-> <<>>]
Reply(t) == [raised |-> FALSE, text |-> t]

DigitChars == <<"0", "1", "2", "3", "4", "5", "6", "7", "8", "9">>
IsDigit(c) == \E d \in 1..10 : DigitChars[d] = c
DigitVal(c) == (CHOOSE d \in 1..10 : DigitChars[d] = c) - 1

RECURSIVE IntValue(_)
IntValue(s) ==
    IF s = <<>> THEN 0
    ELSE IntValue(SubSeq(s, 1, Len(s) - 1)) * 10 + DigitVal(s[Len(s)])

\* int(response.strip()) does not raise ValueError (decimal digits)
IntParses(s) ==
    /\ Strip(s) # <<>>
    /\ \A k \in 1..Len(Strip(s)) : IsDigit(Strip(s)[k])

\* what chat_llm can hand back to select_best_translation
SelectAnswers ==
    { <<"0">>, <<"1">>, <<"2">>, <<"m", "a", "y", "b", "e">>, <<>> }

SelectOutcomes == {Raised} \cup {Reply(a) : a \in SelectAnswers}

\* what chat_llm can hand back to optimize_translation for segment i: nothing,
\* the basic translation again, or a candidate of its own
OptimizeOutcomes(idx, basic_trans) ==
    {Raised} \cup {Reply(t) : t \in {<<>>, basic_trans, <<"o", Digits[idx + 1]>>}}

\* return optimized_translation if optimized_translation else basic_translation
optimize_translation(basic_translation, reply) ==
    IF Truthy(reply) THEN reply ELSE basic_translation

\* a slip: the two digits change places
select_best_translation_swapped(response, basic_translation, optimized_translation) ==
    IF IntParses(response)
    THEN IF IntValue(Strip(response)) = 0
         THEN optimized_translation
         ELSE basic_translation
    ELSE basic_translation

\* the try block of select_best_translation, given the reply of chat_llm
select_best_translation(response, basic_translation, optimized_translation) ==
    IF IntParses(response)
    THEN IF IntValue(Strip(response)) = 0
         THEN basic_translation
         ELSE optimized_translation
    ELSE basic_translation

\* context_parts: the translations before and after index idx, read from
\* the array b as it is now
context(b, idx, cr, total) ==
    [hasPrev |-> idx > 0,
     prev |-> IF idx > 0 THEN SubSeq(b, Max(0, idx - cr) + 1, idx) ELSE <<>>,
     hasNext |-> idx < total - 1,
     next |-> IF idx < total - 1
              THEN SubSeq(b, idx + 2, Min(total, idx + cr + 1))
              ELSE <<>>]

\* a slip: the chosen text is not stored back into the array
write_back_skipped(b, idx, chosen) == b

\* basic_translations[i] = optimized_trans
write_back(b, idx, chosen) == [b EXCEPT ![idx + 1] = chosen]

NoContext == [hasPrev |-> FALSE, prev |-> <<>>, hasNext |-> FALSE, next |-> <<>>]

NoStep ==
    [index |-> -1, context |-> NoContext, basic_trans |-> <<>>,
     optimizeCalled |-> FALSE, optimize |-> NoOutcome,
     selectCalled |-> FALSE, select |-> NoOutcome,
     chosen |-> <<"-">>]

InitOpt ==
    /\ \E n \in 0..MaxOSegs :
         \E z \in 0..n :
            /\ osegs = [k \in 1..n |->
                          [start |-> k - 1, end |-> k, text |-> TextAt(k, z),
                           speaker |-> IF k = 1 THEN "A" ELSE ""]]
            /\ basic0 = [k \in 1..n |-> IF k = z THEN <<>> ELSE <<"b", Digits[k]>>]
    /\ basic = basic0
    /\ use_llm \in BOOLEAN
    /\ context_range \in 1..MaxCtx
    /\ oi = 0
    /\ final_segments = <<>>
    /\ ostep = NoStep
    /\ opc = "loop"
    /\ MergeIdle
    /\ TransIdle
    /\ CorrIdle
    /\ LlmIdle
    /\ StampIdle
    /\ RenderIdle
    /\ CliIdle

\* a slip: the flag is not consulted
llm_enabled_always(flag) == TRUE

\* if use_llm:
llm_enabled(flag) == flag

\* one iteration of the for loop of optimize_translations_with_context
OptIteration(oOut, sOut) ==
    /\ opc = "loop"
    /\ oi < Len(osegs)
    /\ LET seg == osegs[oi + 1]
           basic_trans == basic[oi + 1]
           context_text == context(basic, oi, context_range, Len(osegs))
           optimized_trans == optimize_translation(basic_trans, oOut.text)
           arbitrate == basic_trans # optimized_trans
           chosen == IF arbitrate
                     THEN select_best_translation(sOut.text, basic_trans, optimized_trans)
                     ELSE optimized_trans
           emit(text) == Append(final_segments,
                                [start |-> seg.start, end |-> seg.end,
                                 text |-> text, speaker |-> seg.speaker])
           log == [NoStep EXCEPT !.index = oi, !.context = context_text,
                                 !.basic_trans = basic_trans]
       IN  IF ~llm_enabled(use_llm)
           THEN /\ final_segments' = emit(basic_trans)
                /\ oi' = oi + 1
                /\ ostep' = [log EXCEPT !.chosen = basic_trans]
                /\ UNCHANGED <<basic, opc>>
           ELSE IF oOut.raised
           THEN /\ opc' = "raised"
                /\ ostep' = [log EXCEPT !.optimizeCalled = TRUE, !.optimize = oOut]
                /\ UNCHANGED <<basic, oi, final_segments>>
           ELSE IF arbitrate /\ sOut.raised
           THEN /\ opc' = "raised"
                /\ ostep' = [log EXCEPT !.optimizeCalled = TRUE, !.optimize = oOut,
                                        !.selectCalled = TRUE, !.select = sOut]
                /\ UNCHANGED <<basic, oi, final_segments>>
           ELSE /\ basic' = write_back(basic, oi, chosen)
                /\ final_segments' = emit(chosen)
                /\ oi' = oi + 1
                /\ ostep' = [log EXCEPT !.optimizeCalled = TRUE, !.optimize = oOut,
                                        !.selectCalled = arbitrate,
                                        !.select = IF arbitrate THEN sOut ELSE NoOutcome,
                                        !.chosen = chosen]
                /\ UNCHANGED opc
    /\ UNCHANGED <<osegs, basic0, use_llm, context_range>>
    /\ UNCHANGED notOpt

OptReturn ==
    /\ opc = "loop"
    /\ ~(oi < Len(osegs))
    /\ opc' = "returned"
    /\ UNCHANGED <<osegs, basic, basic0, use_llm, context_range, oi, final_segments, ostep>>
    /\ UNCHANGED notOpt

NextOpt ==
    \/ \E oOut \in OptimizeOutcomes(oi, IF oi < Len(basic) THEN basic[oi + 1] ELSE <<>>) :
          \E sOut \in SelectOutcomes : OptIteration(oOut, sOut)
    \/ OptReturn

SpecOpt == InitOpt /\ [][NextOpt]_vars

OptStepped == ostep.index >= 0

\* C6: with use_llm, the context built for segment i holds, for each index j
\* in [i - context_range, i - 1], the text chosen for j by the earlier
\* iteration, and for each j in [i + 1, i + context_range] the basic
\* translation of j as it was passed in.
C6_ContextAsymmetry ==
    (OptStepped /\ ostep.optimizeCalled) =>
        LET idx == ostep.index
            lo == Max(0, idx - context_range)
            hi == Min(Len(osegs) - 1, idx + context_range)
        IN  /\ ostep.context.prev = [j \in 1..(idx - lo) |-> final_segments[lo + j].text]
            /\ ostep.context.next = [j \in 1..(hi - idx) |-> basic0[idx + 1 + j]]

\* a context was sent whose left neighbour had been replaced by a candidate
\* and which has a right neighbour
C6_Witness ==
    /\ OptStepped
    /\ ostep.optimizeCalled
    /\ ostep.index >= 1
    /\ final_segments[ostep.index].text # basic0[ostep.index]
    /\ ostep.context.next # <<>>

\* C7: when the arbitration answer does not parse as an integer or the
\* arbitration call raises, the basic translation is chosen and the stage
\* goes on to the next segment without raising.
C7_ArbitrationFallsBack ==
    (OptStepped /\ ostep.selectCalled
        /\ (ostep.select.raised \/ ~IntParses(ostep.select.text)))
    =>  /\ opc # "raised"
        /\ ostep.chosen = ostep.basic_trans
        /\ oi = ostep.index + 1
        /\ final_segments[oi].text = ostep.basic_trans

\* C9: for a segment whose original text is empty neither
\* optimize_translation nor select_best_translation is called.
C9_NoEmptyTextToLLM ==
    (OptStepped /\ osegs[ostep.index + 1].text = <<>>)
    =>  (~ostep.optimizeCalled /\ ~ostep.selectCalled)

\* C21: the stage returns one final segment per input segment, and
\* final_segments[k] has the start, end and speaker of segments[k], for
\* every combination of LanguageModel answers and failures.
C21_OnePerSegment ==
    /\ opc \in {"idle", "loop", "returned"}
    /\ opc = "returned" => Len(final_segments) = Len(osegs)
    /\ \A k \in 1..Len(final_segments) :
          /\ k <= Len(osegs)
          /\ final_segments[k].start = osegs[k].start
          /\ final_segments[k].end = osegs[k].end
          /\ final_segments[k].speaker = osegs[k].speaker

\* C22: with use_llm false the stage is a pass-through: every final text
\* is the basic translation of its index, no LanguageModel call is made and
\* the basic_translations array is left as it was.
C22_PassThrough ==
    (opc # "idle" /\ ~use_llm) =>
        /\ basic = basic0
        /\ opc # "raised"
        /\ Len(final_segments) = oi
        /\ \A k \in 1..Len(final_segments) : final_segments[k].text = basic0[k]
        /\ OptStepped => (~ostep.optimizeCalled /\ ~ostep.selectCalled)

\* a run without the LanguageModel over at least two segments has returned
C22_Witness ==
    /\ opc = "returned"
    /\ ~use_llm
    /\ Len(osegs) >= 2
    /\ Len(final_segments) = Len(osegs)
    /\ OptStepped

\* the candidate of the last iteration: what optimize_translation returned
StepCandidate == optimize_translation(ostep.basic_trans, ostep.optimize.text)

\* C23: with use_llm, select_best_translation is called for a segment
\* exactly when the candidate differs from the basic translation; answer 0
\* keeps the basic translation, answer 1 selects the candidate, and the
\* chosen text is always one of the two.
C23_ArbitrationWhenDifferent ==
    (OptStepped /\ ostep.optimizeCalled /\ ~ostep.optimize.raised) =>
        /\ ostep.selectCalled <=> (StepCandidate # ostep.basic_trans)
        /\ opc # "raised" =>
              /\ ostep.chosen \in {ostep.basic_trans, StepCandidate}
              /\ final_segments[ostep.index + 1].text = ostep.chosen
              /\ (ostep.selectCalled /\ ostep.select.text = <<"0">>)
                    => ostep.chosen = ostep.basic_trans
              /\ (ostep.selectCalled /\ ostep.select.text = <<"1">>)
                    => ostep.chosen = StepCandidate
              /\ ~ostep.selectCalled => ostep.chosen = ostep.basic_trans

\* the arbitration was asked about a candidate of the LanguageModel's own
\* and answered 1
C23_Witness ==
    /\ OptStepped
    /\ ostep.selectCalled
    /\ ostep.select.text = <<"1">>
    /\ StepCandidate # ostep.basic_trans
    /\ ostep.chosen = StepCandidate

\* C33: with use_llm, iteration i stores the chosen text in
\* basic_translations[i] and leaves every other entry alone, and the indices
\* are visited once each in increasing order: the entries below the cursor
\* are the final texts, the entries from the cursor on are still the ones
\* passed in, and at the return basic_translations[k] = final_segments[k].text
\* for every k.
C33_WriteBackFrame ==
    (opc # "idle" /\ use_llm) =>
        /\ Len(basic) = Len(basic0)
        /\ Len(final_segments) = oi
        /\ \A k \in 1..Len(basic) :
              IF k <= oi THEN basic[k] = final_segments[k].text
                         ELSE basic[k] = basic0[k]
        /\ (OptStepped /\ opc # "raised") => ostep.index = oi - 1
        /\ opc = "returned" =>
              /\ oi = Len(osegs)
              /\ \A k \in 1..Len(osegs) : basic[k] = final_segments[k].text

\* a run with the LanguageModel over three segments has returned; one entry
\* was replaced by a candidate and another kept its basic translation
C33_Witness ==
    /\ opc = "returned"
    /\ use_llm
    /\ Len(osegs) = 3
    /\ \E k \in 1..3 : basic[k] # basic0[k]
    /\ \E k \in 1..3 : basic[k] = basic0[k]
    /\ \A k \in 1..3 : basic[k] = final_segments[k].text

\* ========================================================= CorrectionStage
\* the texts of the segments at 1-based positions lo..hi whose text is not
\* blank: [segments[j]["text"] for j in range(...) if segments[j]["text"].strip()]
RECURSIVE NonBlankTexts(_, _, _)
NonBlankTexts(segs, lo, hi) ==
    IF lo > hi THEN <<>>
    ELSE (IF Strip(segs[lo].text) # <<>> THEN <<segs[lo].text>> ELSE <<>>)
         \o NonBlankTexts(segs, lo + 1, hi)

\* a slip: the window before the segment runs over the segment itself
correction_context_with_self(segs, idx, cr) ==
    [prev |-> NonBlankTexts(segs, Max(0, idx - cr) + 1, idx + 1),
     next |-> NonBlankTexts(segs, idx + 2, Min(Len(segs), idx + cr + 1))]

\* previous_context and next_context of segment idx (0-based)
correction_context(segs, idx, cr) ==
    [prev |-> NonBlankTexts(segs, Max(0, idx - cr) + 1, idx),
     next |-> NonBlankTexts(segs, idx + 2, Min(Len(segs), idx + cr + 1))]

\* a slip: an untrimmed emptiness test
is_blank_untrimmed(seg) == seg.text = <<>>

\* not seg.get("text", "").strip()
is_blank(seg) == Strip(seg.text) = <<>>

\* a slip: a blank segment is left out of the result
drop_blank(out, seg) == out

\* corrected_segments.append(seg)
keep_blank(out, seg) == Append(out, seg)

\* a slip: the reply is stored as it is, empty or not
corrected_text_unguarded(original, outcome) ==
    IF outcome.raised THEN original ELSE outcome.text

\* the try/except around chat_llm and `corrected_text if corrected_text
\* else seg["text"]`
corrected_text_of(original, outcome) ==
    LET corrected_text == IF outcome.raised THEN original ELSE outcome.text
    IN  IF Truthy(corrected_text) THEN corrected_text ELSE original

\* what chat_llm can hand back for segment idx: an exception, nothing, the
\* text again, or a correction
CorrectionOutcomes(idx, original) ==
    {Raised} \cup {Reply(t) : t \in {<<>>, Strip(original), <<"c", Digits[idx + 1]>>}}

NoCorrectionStep ==
    [index |-> -1, called |-> FALSE, outcome |-> NoOutcome,
     context |-> [prev |-> <<>>, next |-> <<>>]]

InitCorr ==
    /\ \E n \in 0..MaxCSegs :
         \E p \in [1..n -> SegmentKinds] :
            csegs = Transcript(n, [k \in 1..n |-> 1], p)
    /\ ccontext_range \in 1..MaxCtx
    /\ corrected_segments = <<>>
    /\ ci = 0
    /\ cstep = NoCorrectionStep
    /\ cpc = "start"
    /\ MergeIdle
    /\ TransIdle
    /\ OptIdle
    /\ LlmIdle
    /\ StampIdle
    /\ RenderIdle
    /\ CliIdle

\* if not segments: return segments
CorrectEnter ==
    /\ cpc = "start"
    /\ cpc' = IF csegs = <<>> THEN "returned" ELSE "loop"
    /\ corrected_segments' = IF csegs = <<>> THEN csegs ELSE <<>>
    /\ UNCHANGED <<csegs, ccontext_range, ci, cstep>>
    /\ UNCHANGED notCorr

\* one iteration of the for loop of llm_correct_segments
CorrectIteration(outcome) ==
    /\ cpc = "loop"
    /\ ci < Len(csegs)
    /\ LET seg == csegs[ci + 1]
           ctx == correction_context(csegs, ci, ccontext_range)
       IN  IF is_blank(seg)
           THEN /\ corrected_segments' = keep_blank(corrected_segments, seg)
                /\ cstep' = [NoCorrectionStep EXCEPT !.index = ci]
           ELSE /\ corrected_segments' =
                     Append(corrected_segments,
                            [seg EXCEPT !.text = corrected_text_of(seg.text, outcome)])
                /\ cstep' = [index |-> ci, called |-> TRUE, outcome |-> outcome,
                             context |-> ctx]
    /\ ci' = ci + 1
    /\ UNCHANGED <<csegs, ccontext_range, cpc>>
    /\ UNCHANGED notCorr

CorrectReturn ==
    /\ cpc = "loop"
    /\ ~(ci < Len(csegs))
    /\ cpc' = "returned"
    /\ UNCHANGED <<csegs, ccontext_range, corrected_segments, ci, cstep>>
    /\ UNCHANGED notCorr

NextCorr ==
    \/ CorrectEnter
    \/ \E outcome \in CorrectionOutcomes(ci, IF ci < Len(csegs) THEN csegs[ci + 1].text ELSE <<>>) :
          CorrectIteration(outcome)
    \/ CorrectReturn

SpecCorr == InitCorr /\ [][NextCorr]_vars

CorrStepped == cstep.index >= 0

\* C16: when the LanguageModel call for a segment raises or returns an
\* empty result, the output segment's text is the input segment's text and
\* the stage goes on with the next segment; the stage never fails.
C16_NoOpFallback ==
    /\ cpc \in {"start", "loop", "returned"}
    /\ (CorrStepped /\ cstep.called
            /\ (cstep.outcome.raised \/ cstep.outcome.text = <<>>))
       => /\ corrected_segments[cstep.index + 1].text = csegs[cstep.index + 1].text
          /\ ci = cstep.index + 1
          /\ Len(corrected_segments) = ci

\* the call for the first of two texts returned nothing, the call for the
\* second raised, and the stage has returned
C16_Witness ==
    /\ cpc = "returned"
    /\ Len(csegs) = 2
    /\ cstep.index = 1
    /\ cstep.called
    /\ cstep.outcome.raised
    /\ ~is_blank(csegs[1])
    /\ corrected_segments[1] = csegs[1]

\* C17: a segment whose text is empty or only whitespace is in the output
\* at the same index with every field unchanged, and no LanguageModel call
\* is made for it.
C17_BlankPassesThrough ==
    /\ \A k \in 1..Len(corrected_segments) :
          Strip(csegs[k].text) = <<>> => corrected_segments[k] = csegs[k]
    /\ (CorrStepped /\ Strip(csegs[cstep.index + 1].text) = <<>>) => ~cstep.called

\* a whitespace-only segment between two texts has been passed through
C17_Witness ==
    /\ CorrStepped
    /\ cstep.index = 1
    /\ Len(csegs) = 3
    /\ csegs[2].text = <<" ">>
    /\ ~cstep.called
    /\ corrected_segments[2] = csegs[2]

\* C18: the output has the length of the input and output[k] has the
\* start, end and speaker of input[k], whatever the LanguageModel does.
C18_SameShape ==
    /\ cpc = "returned" => Len(corrected_segments) = Len(csegs)
    /\ cpc = "loop" => Len(corrected_segments) = ci
    /\ \A k \in 1..Len(corrected_segments) :
          /\ k <= Len(csegs)
          /\ corrected_segments[k].start = csegs[k].start
          /\ corrected_segments[k].end = csegs[k].end
          /\ corrected_segments[k].speaker = csegs[k].speaker

\* a run over a silent segment, a corrected one and a failed one is over
C18_Witness ==
    /\ cpc = "returned"
    /\ Len(csegs) = 3
    /\ csegs[1].text = <<>>
    /\ corrected_segments[2].text = <<"c", "2">>
    /\ cstep.outcome.raised

InputTexts == [k \in 1..Len(csegs) |-> csegs[k].text]

NotBlankText(t) == Strip(t) # <<>>

\* C32: the context sent for a non-blank segment i is exactly the non-blank
\* texts of the up to context_range input segments right before it and the
\* up to context_range right after it, in index order; it holds neither
\* segment i nor a blank text, and it is read from the input segments, not
\* from the texts corrected so far.
C32_ContextFromInput ==
    (CorrStepped /\ cstep.called) =>
       LET pos == cstep.index + 1
           lo == Max(1, pos - ccontext_range)
           hi == Min(Len(csegs), pos + ccontext_range)
       IN  /\ cstep.context.prev = SelectSeq(SubSeq(InputTexts, lo, pos - 1), NotBlankText)
           /\ cstep.context.next = SelectSeq(SubSeq(InputTexts, pos + 1, hi), NotBlankText)
           /\ Len(cstep.context.prev) <= pos - lo
           /\ Len(cstep.context.next) <= hi - pos
           /\ \A m \in 1..Len(cstep.context.prev) : Strip(cstep.context.prev[m]) # <<>>
           /\ \A m \in 1..Len(cstep.context.next) : Strip(cstep.context.next[m]) # <<>>

\* the segment before was corrected to another text, and the context of the
\* next one still carries its input text; a third segment lies ahead
C32_Witness ==
    /\ CorrStepped
    /\ cstep.called
    /\ cstep.index = 1
    /\ Len(csegs) = 3
    /\ corrected_segments[1].text # csegs[1].text
    /\ cstep.context.prev = <<csegs[1].text>>
    /\ cstep.context.next = <<csegs[3].text>>

\* =========================================================== LanguageModel
InitialSleepTime == 1

\* what the backend's message content can be when a call returns
BackendContents == { <<" ", "o", "k", " ">>, <<"0">>, <<>> }

BackendOutcomes == {Raised} \cup {Reply(t) : t \in BackendContents}

InitLlm ==
    /\ backend \in {"gpt", "ollama"}
    /\ client_ok \in BOOLEAN
    /\ max_attempts \in 1..MaxLlmAttempts
    /\ attempts = 0
    /\ sleep_time = 0
    /\ llm_calls = 0
    /\ llm_slept = <<>>
    /\ llm_succeeded = FALSE
    /\ response_text = <<>>
    /\ lpc = "start"
    /\ MergeIdle
    /\ TransIdle
    /\ OptIdle
    /\ CorrIdle
    /\ StampIdle
    /\ RenderIdle
    /\ CliIdle

\* chat_llm picks the backend; the backend function sets up its client
\* (import ollama, OpenAI(api_key=api_key)) before its retry loop
LlmEnter ==
    /\ lpc = "start"
    /\ IF client_ok
       THEN /\ lpc' = "loop"
            /\ attempts' = 0
            /\ sleep_time' = InitialSleepTime
       ELSE /\ lpc' = "raised"
            /\ UNCHANGED <<attempts, sleep_time>>
    /\ UNCHANGED <<backend, client_ok, max_attempts, llm_calls, llm_slept,
                   llm_succeeded, response_text>>
    /\ UNCHANGED notLlm

\* sleep_time *= 2
next_sleep_time(t) == t * 2

\* one pass through the while loop of chat_with_ollama / chatwith_gpt
LlmCall(outcome) ==
    /\ lpc = "loop"
    /\ attempts < max_attempts
    /\ llm_calls' = llm_calls + 1
    /\ IF outcome.raised
       THEN /\ attempts' = attempts + 1
            /\ llm_slept' = Append(llm_slept, sleep_time)
            /\ sleep_time' = next_sleep_time(sleep_time)
            /\ UNCHANGED <<llm_succeeded, response_text, lpc>>
       ELSE /\ response_text' = Strip(outcome.text)
            /\ llm_succeeded' = TRUE
            /\ lpc' = "returned"
            /\ UNCHANGED <<attempts, llm_slept, sleep_time>>
    /\ UNCHANGED <<backend, client_ok, max_attempts>>
    /\ UNCHANGED notLlm

\* the while loop is over: return ""
LlmGiveUp ==
    /\ lpc = "loop"
    /\ ~(attempts < max_attempts)
    /\ response_text' = <<>>
    /\ lpc' = "returned"
    /\ UNCHANGED <<backend, client_ok, max_attempts, attempts, sleep_time,
                   llm_calls, llm_slept, llm_succeeded>>
    /\ UNCHANGED notLlm

NextLlm ==
    \/ LlmEnter
    \/ \E outcome \in BackendOutcomes : LlmCall(outcome)
    \/ LlmGiveUp

SpecLlm == InitLlm /\ [][NextLlm]_vars

\* C24: chat_llm never raises to its caller; when every backend call fails
\* it makes exactly max_attempts calls, with a backoff of 1s that doubles
\* after each failed attempt, and returns the empty string; when a call
\* succeeds it returns that call's text with no further attempt.
C24_NeverRaises ==
    /\ lpc # "raised"
    /\ lpc \in {"loop", "returned"} =>
          /\ Len(llm_slept) = attempts
          /\ \A a \in 1..Len(llm_slept) : llm_slept[a] = 2 ^ (a - 1)
    /\ (lpc = "returned" /\ ~llm_succeeded) =>
          /\ llm_calls = max_attempts
          /\ attempts = max_attempts
          /\ response_text = <<>>
    /\ (lpc = "returned" /\ llm_succeeded) => llm_calls = attempts + 1

\* ============================================================== timestamps
\* a time is a whole number of units of 0.0001 s
TicksPerSecond == 10000

\* str(n) for a natural number
RECURSIVE DecimalString(_)
DecimalString(n) ==
    IF n < 10 THEN <<DigitChars[n + 1]>>
    ELSE DecimalString(n \div 10) \o <<DigitChars[(n % 10) + 1]>>

\* f"{n:0wd}": at least w digits, zero-filled
RECURSIVE ZeroFill(_, _)
ZeroFill(digits, w) ==
    IF Len(digits) >= w THEN digits ELSE ZeroFill(<<"0">> \o digits, w)

Padded(n, w) == ZeroFill(DecimalString(n), w)

\* round(num / den) as Python 3 rounds: to the nearest integer, a tie to
\* the even neighbour
PyRound(num, den) ==
    LET q == num \div den
        r == num % den
    IN  IF 2 * r < den THEN q
        ELSE IF 2 * r > den THEN q + 1
        ELSE IF q % 2 = 0 THEN q ELSE q + 1

\* the double nearest a decimal time is the time itself or lies a hair to
\* one side of it; a whole number of seconds is always exact
FpSides == {"below", "exact", "above"}

\* int(round((seconds - total_seconds) * 1000)): the double product of a
\* time on an exact half falls to the side the representation puts it
millis_of(frac, side) ==
    LET q == (frac * 1000) \div TicksPerSecond
        r == (frac * 1000) % TicksPerSecond
    IN  IF 2 * r = TicksPerSecond /\ side = "below" THEN q
        ELSE IF 2 * r = TicksPerSecond /\ side = "above" THEN q + 1
        ELSE PyRound(frac * 1000, TicksPerSecond)

\* a slip: the centiseconds are rounded
centiseconds_rounded(frac, side) == PyRound(frac * 100, TicksPerSecond)

\* int((seconds - total_seconds) * 100): the double product of a time on a
\* whole centisecond can fall just short of it
centiseconds_of(frac, side) ==
    LET c == (frac * 100) \div TicksPerSecond
    IN  IF (frac * 100) % TicksPerSecond = 0 /\ frac > 0 /\ side = "below"
        THEN c - 1
        ELSE c

format_timestamp(t, side) ==
    LET total_seconds == t \div TicksPerSecond
        millis == millis_of(t % TicksPerSecond, side)
        hours == total_seconds \div 3600
        minutes == (total_seconds % 3600) \div 60
        secs == total_seconds % 60
    IN  Padded(hours, 2) \o <<":">> \o Padded(minutes, 2) \o <<":">>
        \o Padded(secs, 2) \o <<",">> \o Padded(millis, 3)

format_ass_timestamp(t, side) ==
    LET total_seconds == t \div TicksPerSecond
        hours == total_seconds \div 3600
        minutes == (total_seconds % 3600) \div 60
        secs == total_seconds % 60
        centiseconds == centiseconds_of(t % TicksPerSecond, side)
    IN  DecimalString(hours) \o <<":">> \o Padded(minutes, 2) \o <<":">>
        \o Padded(secs, 2) \o <<".">> \o Padded(centiseconds, 2)

\* the times tried: every hour up to MaxHours, a few minutes and seconds,
\* and fractions on and around the rounding and truncation edges
MinuteSamples == {0, 2, 59}
SecondSamples == {0, 5, 59}
FractionSamples == {0, 4, 5, 15, 99, 100, 4567, 9949, 9950, 9994, 9995, 9996, 9999}

InitStamp ==
    /\ \E h \in 0..MaxHours, m \in MinuteSamples, sc \in SecondSamples,
          f \in FractionSamples :
          /\ stamp_seconds = ((h * 60 + m) * 60 + sc) * TicksPerSecond + f
          /\ fp_side \in (IF f = 0 THEN {"exact"} ELSE FpSides)
    /\ srt_time = <<>>
    /\ ass_time = <<>>
    /\ MergeIdle
    /\ TransIdle
    /\ OptIdle
    /\ CorrIdle
    /\ LlmIdle
    /\ RenderIdle
    /\ CliIdle

FormatSrt ==
    /\ srt_time = <<>>
    /\ srt_time' = format_timestamp(stamp_seconds, fp_side)
    /\ UNCHANGED <<stamp_seconds, fp_side, ass_time>>
    /\ UNCHANGED notStamp

FormatAss ==
    /\ ass_time = <<>>
    /\ ass_time' = format_ass_timestamp(stamp_seconds, fp_side)
    /\ UNCHANGED <<stamp_seconds, fp_side, srt_time>>
    /\ UNCHANGED notStamp

NextStamp == FormatSrt \/ FormatAss

SpecStamp == InitStamp /\ [][NextStamp]_vars

\* the number written in positions lo..hi of a timestamp
Field(stamp, lo, hi) == IntValue(SubSeq(stamp, lo, hi))

AllDigits(stamp, lo, hi) == \A k \in lo..hi : IsDigit(stamp[k])

\* the whole hours, minutes and seconds of a time
WholeHours(t) == t \div (3600 * TicksPerSecond)
WholeMinutes(t) == (t \div (60 * TicksPerSecond)) % 60
WholeSeconds(t) == (t \div TicksPerSecond) % 60

\* C26: the SRT timestamp of a time is "HH:MM:SS,mmm" with the whole
\* hours, minutes and seconds of the time and its fractional part in
\* milliseconds rounded to the nearest integer.
C26_SrtTimestamp ==
    (srt_time # <<>> /\ srt_time # <<"-">>) =>
        /\ Len(srt_time) = 12
        /\ srt_time[3] = ":" /\ srt_time[6] = ":" /\ srt_time[9] = ","
        /\ AllDigits(srt_time, 1, 2) /\ AllDigits(srt_time, 4, 5)
        /\ AllDigits(srt_time, 7, 8) /\ AllDigits(srt_time, 10, 12)
        /\ Field(srt_time, 1, 2) = WholeHours(stamp_seconds)
        /\ Field(srt_time, 4, 5) = WholeMinutes(stamp_seconds)
        /\ Field(srt_time, 7, 8) = WholeSeconds(stamp_seconds)
        /\ LET frac == stamp_seconds % TicksPerSecond
               mmm == Field(srt_time, 10, 12)
           IN  /\ 10 * mmm - frac <= 5
               /\ frac - 10 * mmm <= 5

C36_MillisCarry ==
    (srt_time # <<>> /\ srt_time # <<"-">>) =>
        /\ Len(srt_time) = 12
        /\ srt_time[9] = ","
        /\ AllDigits(srt_time, 7, 8)
        /\ Field(srt_time, 7, 8) <= 59
        /\ AllDigits(srt_time, 10, Len(srt_time))
        /\ Field(srt_time, 10, Len(srt_time)) <= 999
        /\ (stamp_seconds % TicksPerSecond > TicksPerSecond - 5) =>
              /\ Field(srt_time, 10, Len(srt_time)) = 0
              /\ Field(srt_time, 7, 8) = WholeSeconds(stamp_seconds + TicksPerSecond)

\* ======================================================== SubtitleRenderer
\* the time spans a segment can have: overlapping, touching and apart
RenderSpans ==
    { <<0, 6>>, <<5, 10>>, <<11, 12>>, <<6, 8>>, <<1, 2>> }

\* sorted() is stable: seg goes after every element whose start is not
\* greater than its own
RECURSIVE InsertByStart(_, _)
InsertByStart(sorted, seg) ==
    IF sorted = <<>> THEN <<seg>>
    ELSE IF sorted[Len(sorted)].start <= seg.start THEN Append(sorted, seg)
    ELSE Append(InsertByStart(SubSeq(sorted, 1, Len(sorted) - 1), seg),
                sorted[Len(sorted)])

\* sorted(segments, key=lambda x: x["start"])
RECURSIVE SortedByStart(_)
SortedByStart(segs) ==
    IF segs = <<>> THEN <<>>
    ELSE InsertByStart(SortedByStart(SubSeq(segs, 1, Len(segs) - 1)), segs[Len(segs)])

\* min(seg["start"] for seg in group), max(seg["end"] for seg in group)
RECURSIVE MinStart(_)
MinStart(group) ==
    IF Len(group) = 1 THEN group[1].start
    ELSE Min(MinStart(SubSeq(group, 1, Len(group) - 1)), group[Len(group)].start)

RECURSIVE MaxEnd(_)
MaxEnd(group) ==
    IF Len(group) = 1 THEN group[1].end
    ELSE Max(MaxEnd(SubSeq(group, 1, Len(group) - 1)), group[Len(group)].end)

\* the time range of the block written for each group
BlocksOf(gs) == [k \in 1..Len(gs) |-> [start |-> MinStart(gs[k]), end |-> MaxEnd(gs[k])]]

\* a slip: a segment that starts where the group ends is taken in
joins_touching(seg, running_end) == seg.start <= running_end

\* if seg["start"] < current_end:
joins(seg, running_end) == seg.start < running_end

NoGroupStep == [index |-> 0, joined |-> FALSE, opened |-> FALSE, before |-> <<>>]

InitRender ==
    /\ \E n \in 0..MaxRSegs :
         \E sp \in [1..n -> RenderSpans] :
            render_in = [k \in 1..n |->
                           [start |-> sp[k][1], end |-> sp[k][2],
                            text |-> <<"s", Digits[k]>>, speaker |-> ""]]
    /\ sorted_segments = <<>>
    /\ groups = <<>>
    /\ current_group = <<>>
    /\ current_end = 0
    /\ gi = 0
    /\ gstep = NoGroupStep
    /\ blocks = <<>>
    /\ rpc = "start"
    /\ MergeIdle
    /\ TransIdle
    /\ OptIdle
    /\ CorrIdle
    /\ LlmIdle
    /\ StampIdle
    /\ CliIdle

\* generate_srt sorts its argument and calls group_overlapping_segments
RenderEnter ==
    /\ rpc = "start"
    /\ sorted_segments' = SortedByStart(render_in)
    /\ rpc' = "group"
    /\ UNCHANGED <<render_in, groups, current_group, current_end, gi, gstep, blocks>>
    /\ UNCHANGED notRender

\* one iteration of the for loop of group_overlapping_segments
GroupStep ==
    /\ rpc = "group"
    /\ gi < Len(sorted_segments)
    /\ LET seg == sorted_segments[gi + 1]
       IN  IF current_group = <<>>
           THEN /\ current_group' = <<seg>>
                /\ current_end' = seg.end
                /\ gstep' = [index |-> gi + 1, joined |-> FALSE, opened |-> TRUE,
                             before |-> <<>>]
                /\ UNCHANGED groups
           ELSE IF joins(seg, current_end)
           THEN /\ current_group' = Append(current_group, seg)
                /\ current_end' = Max(current_end, seg.end)
                /\ gstep' = [index |-> gi + 1, joined |-> TRUE, opened |-> FALSE,
                             before |-> current_group]
                /\ UNCHANGED groups
           ELSE /\ groups' = Append(groups, current_group)
                /\ current_group' = <<seg>>
                /\ current_end' = seg.end
                /\ gstep' = [index |-> gi + 1, joined |-> FALSE, opened |-> TRUE,
                             before |-> current_group]
    /\ gi' = gi + 1
    /\ UNCHANGED <<render_in, sorted_segments, blocks, rpc>>
    /\ UNCHANGED notRender

\* the loop is over: the open group is closed and one block is written
\* for every group
RenderBlocks ==
    /\ rpc = "group"
    /\ ~(gi < Len(sorted_segments))
    /\ LET all == IF current_group # <<>> THEN Append(groups, current_group)
                  ELSE groups
       IN  /\ groups' = all
           /\ blocks' = BlocksOf(all)
    /\ rpc' = "returned"
    /\ UNCHANGED <<render_in, sorted_segments, current_group, current_end, gi, gstep>>
    /\ UNCHANGED notRender

NextRender == RenderEnter \/ GroupStep \/ RenderBlocks

SpecRender == InitRender /\ [][NextRender]_vars

\* the largest end among the members of a group
LargestEnd(group) ==
    CHOOSE e \in {group[k].end : k \in 1..Len(group)} :
        \A k \in 1..Len(group) : group[k].end <= e

SmallestStart(group) ==
    CHOOSE b \in {group[k].start : k \in 1..Len(group)} :
        \A k \in 1..Len(group) : b <= group[k].start

RECURSIVE Flatten(_)
Flatten(gs) ==
    IF gs = <<>> THEN <<>>
    ELSE Flatten(SubSeq(gs, 1, Len(gs) - 1)) \o gs[Len(gs)]

\* C25: the segments are grouped in one pass in order of start: a segment
\* joins the current group exactly when its start is less than the largest
\* end seen in that group, otherwise it opens a new group; each group is
\* one block from the smallest start to the largest end of its members.
C25_GroupByRunningEnd ==
    /\ rpc \in {"group", "returned"} =>
          /\ Len(sorted_segments) = Len(render_in)
          /\ \A k \in 1..(Len(sorted_segments) - 1) :
                sorted_segments[k].start <= sorted_segments[k + 1].start
          /\ \A k \in 1..Len(render_in) :
                \E j \in 1..Len(sorted_segments) : sorted_segments[j] = render_in[k]
    /\ (rpc = "group" /\ gstep.index >= 1) =>
          /\ gstep.index = gi
          /\ gstep.before # <<>> =>
                (gstep.joined <=> sorted_segments[gi].start < LargestEnd(gstep.before))
          /\ gstep.joined # gstep.opened
          /\ gstep.joined => current_group = Append(gstep.before, sorted_segments[gi])
          /\ gstep.opened => current_group = <<sorted_segments[gi]>>
    /\ rpc = "returned" =>
          /\ Flatten(groups) = sorted_segments
          /\ Len(blocks) = Len(groups)
          /\ \A k \in 1..Len(groups) :
                /\ groups[k] # <<>>
                /\ blocks[k].start = SmallestStart(groups[k])
                /\ blocks[k].end = LargestEnd(groups[k])
                /\ \A j \in 2..Len(groups[k]) :
                      groups[k][j].start < LargestEnd(SubSeq(groups[k], 1, j - 1))
                /\ k > 1 => groups[k][1].start >= LargestEnd(groups[k - 1])

\* segments 0-6 and 5-10 have become one block 0-10 and the segment
\* starting at 11 a block of its own
C25_Witness ==
    /\ rpc = "returned"
    /\ Len(render_in) = 3
    /\ Len(groups) = 2
    /\ Len(groups[1]) = 2
    /\ blocks[1] = [start |-> 0, end |-> 10]
    /\ blocks[2].start = 11

\* ===================================================================== run
\* the calls of main, in the order of its try block
Pipeline ==
    << "check_key", "copy", "extract", "transcribe", "raw_srt", "raw_ass",
       "correct", "merge", "translate", "optimize", "final_srt", "final_ass" >>

Renders == {"raw_srt", "raw_ass", "final_srt", "final_ass"}

PositionOf(name) == CHOOSE k \in 1..Len(Pipeline) : Pipeline[k] = name

\* the statement after call name when it returns normally
Successor(name) ==
    IF PositionOf(name) = Len(Pipeline) THEN "finally_audio"
    ELSE Pipeline[PositionOf(name) + 1]

NoCall == [name |-> "none", ok |-> TRUE]

InitCli ==
    /\ cli_args \in [llm_backend : {"gpt", "ollama"},
                     has_key : BOOLEAN,
                     use_llm_correction : BOOLEAN,
                     use_llm_segmentation : BOOLEAN,
                     use_llm_translation : BOOLEAN,
                     same_language : BOOLEAN]
    /\ cli_pc = "check_key"
    /\ audio_path_bound = FALSE
    /\ args_video = "original"
    /\ temp_files = {}
    /\ failed = FALSE
    /\ stages_run = <<>>
    /\ write_failed = {}
    /\ last_call = NoCall
    /\ MergeIdle
    /\ TransIdle
    /\ OptIdle
    /\ CorrIdle
    /\ LlmIdle
    /\ StampIdle
    /\ RenderIdle

\* the call returned: go on with the next statement of the try block
Returned(name) ==
    /\ cli_pc' = Successor(name)
    /\ stages_run' = Append(stages_run, name)
    /\ last_call' = [name |-> name, ok |-> TRUE]
    /\ UNCHANGED failed

\* the call raised: control goes to the except clause of main
RaisedIn(name) ==
    /\ cli_pc' = "except"
    /\ failed' = TRUE
    /\ last_call' = [name |-> name, ok |-> FALSE]
    /\ UNCHANGED stages_run

\* if args.llm_backend.lower() == "gpt" and not api_key: raise ValueError
CheckKey ==
    /\ cli_pc = "check_key"
    /\ IF cli_args.llm_backend = "gpt" /\ ~cli_args.has_key
       THEN RaisedIn("check_key")
       ELSE Returned("check_key")
    /\ UNCHANGED <<cli_args, audio_path_bound, args_video, temp_files, write_failed>>
    /\ UNCHANGED notCli

CopyOutcomes == {"copied", "failed", "failed_half_written"}

\* copy_video_to_temp makes the directory, then copies; main then points
\* args.video at the copy and assigns temp_dir and temp_audio_path
CopyVideo(outcome) ==
    /\ cli_pc = "copy"
    /\ IF outcome = "copied"
       THEN /\ temp_files' = temp_files \cup {"dir", "video"}
            /\ args_video' = "temp"
            /\ audio_path_bound' = TRUE
            /\ Returned("copy")
       ELSE /\ temp_files' = temp_files \cup
                    (IF outcome = "failed_half_written" THEN {"dir", "video"} ELSE {"dir"})
            /\ RaisedIn("copy")
            /\ UNCHANGED <<args_video, audio_path_bound>>
    /\ UNCHANGED <<cli_args, write_failed>>
    /\ UNCHANGED notCli

ExtractOutcomes == {"written", "failed", "failed_half_written"}

\* extract_audio_from_video writes temp_audio.wav or raises
ExtractAudio(outcome) ==
    /\ cli_pc = "extract"
    /\ IF outcome = "written"
       THEN /\ temp_files' = temp_files \cup {"audio"}
            /\ Returned("extract")
       ELSE /\ temp_files' = temp_files \cup
                    (IF outcome = "failed_half_written" THEN {"audio"} ELSE {})
            /\ RaisedIn("extract")
    /\ UNCHANGED <<cli_args, audio_path_bound, args_video, write_failed>>
    /\ UNCHANGED notCli

\* transcribe_audio_whisper and post_process_segments; the files they
\* write are put in the temporary directory
Transcribe(ok) ==
    /\ cli_pc = "transcribe"
    /\ IF ok THEN Returned("transcribe") ELSE RaisedIn("transcribe")
    /\ UNCHANGED <<cli_args, audio_path_bound, args_video, temp_files, write_failed>>
    /\ UNCHANGED notCli

\* a slip: the write error leaves the render call
render_exit_raising(name, write_ok) == IF write_ok THEN Successor(name) ELSE "except"

\* generate_srt / generate_ass catch the write error, print it and return
render_exit(name, write_ok) == Successor(name)

\* a call of generate_srt or generate_ass
Render(name, write_ok) ==
    /\ name \in Renders
    /\ cli_pc = name
    /\ cli_pc' = render_exit(name, write_ok)
    /\ stages_run' = IF cli_pc' = "except" THEN stages_run ELSE Append(stages_run, name)
    /\ failed' = (failed \/ cli_pc' = "except")
    /\ write_failed' = IF write_ok THEN write_failed ELSE write_failed \cup {name}
    /\ last_call' = [name |-> name, ok |-> write_ok]
    /\ UNCHANGED <<cli_args, audio_path_bound, args_video, temp_files>>
    /\ UNCHANGED notCli

\* llm_correct_segments and llm_merge_segments, when their flags are set;
\* neither lets an exception of the LanguageModel out
Correct ==
    /\ cli_pc = "correct"
    /\ Returned("correct")
    /\ UNCHANGED <<cli_args, audio_path_bound, args_video, temp_files, write_failed>>
    /\ UNCHANGED notCli

Merge ==
    /\ cli_pc = "merge"
    /\ Returned("merge")
    /\ UNCHANGED <<cli_args, audio_path_bound, args_video, temp_files, write_failed>>
    /\ UNCHANGED notCli

\* basic_translate_segments, skipped with optimize when the languages agree
Translate ==
    /\ cli_pc = "translate"
    /\ IF cli_args.same_language
       THEN /\ cli_pc' = "final_srt"
            /\ last_call' = NoCall
            /\ UNCHANGED <<stages_run, failed>>
       ELSE Returned("translate")
    /\ UNCHANGED <<cli_args, audio_path_bound, args_video, temp_files, write_failed>>
    /\ UNCHANGED notCli

\* optimize_translations_with_context; with use_llm an exception of
\* chat_llm leaves it
Optimize(ok) ==
    /\ cli_pc = "optimize"
    /\ ok \/ cli_args.use_llm_translation
    /\ IF ok THEN Returned("optimize") ELSE RaisedIn("optimize")
    /\ UNCHANGED <<cli_args, audio_path_bound, args_video, temp_files, write_failed>>
    /\ UNCHANGED notCli

\* except Exception as e: print(...)
ExceptClause ==
    /\ cli_pc = "except"
    /\ cli_pc' = "finally_audio"
    /\ last_call' = [name |-> "except", ok |-> TRUE]
    /\ UNCHANGED <<cli_args, audio_path_bound, args_video, temp_files, failed,
                   stages_run, write_failed>>
    /\ UNCHANGED notCli

\* finally: safe_remove(temp_audio_path); the name is unbound when the try
\* block was left before its assignment, and the run ends in that error
FinallyAudio ==
    /\ cli_pc = "finally_audio"
    /\ IF audio_path_bound
       THEN /\ temp_files' = temp_files \ {"audio"}
            /\ cli_pc' = "finally_dir"
       ELSE /\ cli_pc' = "crashed"
            /\ UNCHANGED temp_files
    /\ last_call' = [name |-> "safe_remove", ok |-> audio_path_bound]
    /\ UNCHANGED <<cli_args, audio_path_bound, args_video, failed, stages_run,
                   write_failed>>
    /\ UNCHANGED notCli

\* delete_temp_folder(args.video): rmtree of the directory of the copy
FinallyDir ==
    /\ cli_pc = "finally_dir"
    /\ args_video = "temp"
    /\ temp_files' = {}
    /\ cli_pc' = "done"
    /\ last_call' = [name |-> "delete_temp_folder", ok |-> TRUE]
    /\ UNCHANGED <<cli_args, audio_path_bound, args_video, failed, stages_run,
                   write_failed>>
    /\ UNCHANGED notCli

NextCli ==
    \/ CheckKey
    \/ \E outcome \in CopyOutcomes : CopyVideo(outcome)
    \/ \E outcome \in ExtractOutcomes : ExtractAudio(outcome)
    \/ \E ok \in BOOLEAN : Transcribe(ok)
    \/ \E name \in Renders, write_ok \in BOOLEAN : Render(name, write_ok)
    \/ Correct
    \/ Merge
    \/ Translate
    \/ \E ok \in BOOLEAN : Optimize(ok)
    \/ ExceptClause
    \/ FinallyAudio
    \/ FinallyDir

SpecCli == InitCli /\ [][NextCli]_vars

RunOver == cli_pc \in {"done", "crashed"}

\* C28: on every exit path of a run every temporary resource the run
\* acquired is released before the run ends.
C28_TempFilesReleased == RunOver => temp_files = {}

\* C29: a write error in a render call is reported and does not abort the
\* run: the call returns normally, and every later stage and render call
\* is still executed.
C29_WriteErrorNotFatal ==
    /\ \A name \in write_failed :
          \E k \in 1..Len(stages_run) : stages_run[k] = name
    /\ (last_call.name \in Renders /\ ~last_call.ok) =>
          /\ cli_pc = Successor(last_call.name)
          /\ cli_pc # "except"
    /\ (cli_pc = "done" /\ ~failed) =>
          /\ \A name \in Renders : \E k \in 1..Len(stages_run) : stages_run[k] = name
          /\ ~cli_args.same_language =>
                \E k \in 1..Len(stages_run) : stages_run[k] = "optimize"

\* a run in which every render call hit a write error has gone through
\* translation and optimization to its end
C29_Witness ==
    /\ cli_pc = "done"
    /\ ~failed
    /\ write_failed = Renders
    /\ ~cli_args.same_language
    /\ stages_run[Len(stages_run)] = "final_ass"
    /\ \E k \in 1..Len(stages_run) : stages_run[k] = "optimize"

\* C37: a run that fails before its temporary paths exist (hosted backend
\* with no key, or the copy of the video fails) reports the error and ends
\* without an unhandled exception: both cleanup calls complete without
\* raising, and nothing outside the temporary directory is removed.
C37_EarlyFailureCleanup ==
    (failed /\ ~audio_path_bound) =>
        /\ cli_pc # "crashed"
        /\ last_call.name \in {"safe_remove", "delete_temp_folder"} => last_call.ok
        /\ RunOver => cli_pc = "done"

====
